---- MODULE Spec2Model ----
(***************************************************************************)
(* Model of the paycare ETL pipeline (src/etl.py): extract_data reads a    *)
(* CSV file into a DataFrame, transform_data drops incomplete rows and     *)
(* derives tax and net_salary from salary, load_data writes the result to  *)
(* a CSV file, etl_process sequences the three and the script block runs   *)
(* etl_process once per process.                                           *)
(*                                                                         *)
(* Numbers are fixed-point, in tenths: the literal 10 of a CSV file is the *)
(* value 100.  Salaries of the model are whole numbers, on which the       *)
(* product with 0.1 is exact.                                              *)
(***************************************************************************)
EXTENDS Integers, Sequences, FiniteSets, TLC

\* Most data rows of an input file or of a DataFrame handed to transform_data.
MaxRows == 2
\* Most runs of the script on the same pair of paths.
MaxRuns == 2

VARIABLES
    entry,        \* "script": python etl.py; "transform_data": a direct call
    pc,           \* position of the run
    run,          \* number of the current run of the script
    inputFile,    \* the file at the input path
    outputFile,   \* the file at the output path
    outOpenable,  \* whether the output path can be opened for writing
    outSpace,     \* lines the device of the output path has room for
    outAtStart,   \* the file at the output path when the current run began
    data,         \* etl_process: data / transform_data: its argument
    transformed,  \* etl_process: transformed_data / transform_data: its result
    out,          \* notices printed by the current run, in order
    calls         \* stages invoked by the current run, in order

vars == <<entry, pc, run, inputFile, outputFile, outOpenable, outSpace,
          outAtStart, data, transformed, out, calls>>

----------------------------------------------------------------------------
\* Cells of a DataFrame.
NaN == [kind |-> "nan", val |-> 0]
Num(n) == [kind |-> "num", val |-> n]
Word == [kind |-> "word", val |-> 0]
NumStr(n) == [kind |-> "numstr", val |-> n]

\* Fields of a CSV file.
EmptyField == [kind |-> "empty", val |-> 0]
Literal(n) == [kind |-> "lit", val |-> n]
WordField == [kind |-> "text", val |-> 0]

\* The failure value of extract_data and transform_data.
None == [ok |-> FALSE, columns |-> <<>>, index |-> <<>>, rows |-> <<>>]

DataFrame(columns, index, rows) ==
    [ok |-> TRUE, columns |-> columns, index |-> index, rows |-> rows]

NoFile == [exists |-> FALSE, header |-> <<>>, rows |-> <<>>]
EmptyFile == [exists |-> TRUE, header |-> <<>>, rows |-> <<>>]
CsvFile(header, rows) == [exists |-> TRUE, header |-> header, rows |-> rows]

Range(s) == {s[i] : i \in 1..Len(s)}

IndexOf(s, x) == CHOOSE i \in 1..Len(s) : s[i] = x

----------------------------------------------------------------------------
\* pd.read_csv: a column whose non-empty fields are all numeric literals is a
\* numeric column; any other column holds strings.  An empty field is NaN.
ColumnIsNumeric(file, j) ==
    \A i \in 1..Len(file.rows) : file.rows[i][j].kind \in {"empty", "lit"}

ParseField(f, numeric) ==
    IF f.kind = "empty" THEN NaN
    ELSE IF f.kind = "lit" THEN (IF numeric THEN Num(f.val) ELSE NumStr(f.val))
    ELSE Word

read_csv(file) ==
    DataFrame(file.header,
              [i \in 1..Len(file.rows) |-> i - 1],
              [i \in 1..Len(file.rows) |->
                  [j \in 1..Len(file.header) |->
                      ParseField(file.rows[i][j], ColumnIsNumeric(file, j))]])

\* pd.read_csv raises on a missing file and on a file without a header line.
read_csv_raises(file) == ~file.exists \/ file.header = <<>>

extract_data(file) == IF read_csv_raises(file) THEN None ELSE read_csv(file)

----------------------------------------------------------------------------
\* dropna(how="all") in place of dropna(): only a row of nothing but missing
\* cells counts as incomplete.
RowAllNa(row) == \A j \in 1..Len(row) : row[j].kind = "nan"

RowHasNa(row) == \E j \in 1..Len(row) : row[j].kind = "nan"

\* The positions of the rows DataFrame.dropna keeps, in order.
RECURSIVE KeptFrom(_, _)
KeptFrom(rows, i) ==
    IF i > Len(rows) THEN <<>>
    ELSE (IF RowHasNa(rows[i]) THEN <<>> ELSE <<i>>) \o KeptFrom(rows, i + 1)

Kept(rows) == KeptFrom(rows, 1)

dropna(df) ==
    LET keep == Kept(df.rows)
    IN  DataFrame(df.columns,
                  [k \in 1..Len(keep) |-> df.index[keep[k]]],
                  [k \in 1..Len(keep) |-> df.rows[keep[k]]])

HasColumn(df, name) == name \in Range(df.columns)

\* df[name]
GetColumn(df, name) ==
    [i \in 1..Len(df.rows) |-> df.rows[i][IndexOf(df.columns, name)]]

\* df[name] = values: replaces the column of that name, appends a new one
\* otherwise.
SetColumn(df, name, values) ==
    IF HasColumn(df, name)
    THEN DataFrame(df.columns, df.index,
             [i \in 1..Len(df.rows) |->
                 [df.rows[i] EXCEPT ![IndexOf(df.columns, name)] = values[i]]])
    ELSE DataFrame(Append(df.columns, name), df.index,
             [i \in 1..Len(df.rows) |-> Append(df.rows[i], values[i])])

\* A rate of 0.2 in place of 0.1.
TimesFifth(v) == v \div 5

\* salary * 0.1
TimesTaxRate(v) == v \div 10

\* salary - tax
Minus(a, b) == a - b

\* Arithmetic on a cell that is a string raises TypeError.
ArithmeticRaises(column) ==
    \E i \in 1..Len(column) : column[i].kind \in {"word", "numstr"}

transform_raises(df) ==
    \/ ~HasColumn(df, "salary")
    \/ ArithmeticRaises(GetColumn(dropna(df), "salary"))

transform_data(df) ==
    IF transform_raises(df) THEN None
    ELSE LET cleaned == dropna(df)
             salary  == GetColumn(cleaned, "salary")
             withTax == SetColumn(cleaned, "tax",
                           [i \in 1..Len(salary) |->
                               Num(TimesTaxRate(salary[i].val))])
             sal2    == GetColumn(withTax, "salary")
             tax     == GetColumn(withTax, "tax")
         IN  SetColumn(withTax, "net_salary",
                 [i \in 1..Len(sal2) |-> Num(Minus(sal2[i].val, tax[i].val))])

----------------------------------------------------------------------------
FormatCell(c) ==
    IF c.kind = "nan" THEN EmptyField
    ELSE IF c.kind \in {"num", "numstr"} THEN Literal(c.val)
    ELSE WordField

\* DataFrame.to_csv(index=False): the header line, then one line per row.
to_csv(df) ==
    CsvFile(df.columns,
            [i \in 1..Len(df.rows) |->
                [j \in 1..Len(df.columns) |-> FormatCell(df.rows[i][j])]])

Lines(file) == IF file.header = <<>> THEN 0 ELSE 1 + Len(file.rows)

\* The first n lines of a file.
Truncated(file, n) ==
    IF n = 0 THEN EmptyFile
    ELSE CsvFile(file.header, SubSeq(file.rows, 1, n - 1))

\* open(path, "a") in place of open(path, "w"): the lines are added to the
\* file.
Appended(old, new, openable, space) ==
    IF ~openable THEN old
    ELSE CsvFile(new.header, old.rows \o new.rows)

\* What open(path, "w") and the writes that follow leave at the path.
Written(old, new, openable, space) ==
    IF ~openable THEN old
    ELSE IF Lines(new) > space THEN Truncated(new, space)
    ELSE new

to_csv_raises(df, openable, space) ==
    ~df.ok \/ ~openable \/ Lines(to_csv(df)) > space

----------------------------------------------------------------------------
\* etl_process without the test of line 45.
AlwaysTransform(d) == "transform"

\* etl_process, line 45: transform only what was extracted.
AfterExtract(d) == IF d.ok THEN "transform" ELSE "end"

\* etl_process without the test of line 47.
AlwaysLoad(t) == "load"

\* etl_process, line 47: load only what was transformed.
AfterTransform(t) == IF t.ok THEN "load" ELSE "end"

----------------------------------------------------------------------------
\* Inputs.
Fields == {EmptyField, Literal(100), Literal(250), WordField}

Cells == {NaN, Num(100), Num(250), Word}

FileHeaders ==
    { <<"id">>, <<"salary">>, <<"id", "salary">>, <<"salary", "id">>,
      <<"salary", "tax">>, <<"net_salary", "salary">> }

FrameHeaders ==
    { <<>>, <<"id", "name">>, <<"salary">>, <<"name", "salary">> }

RowsOver(S, width) ==
    IF width = 0 THEN {<<>>}
    ELSE UNION {[1..n -> [1..width -> S]] : n \in 0..MaxRows}

InputFiles ==
    {NoFile, EmptyFile} \cup
    UNION {{CsvFile(h, r) : r \in RowsOver(Fields, Len(h))} : h \in FileHeaders}

DataFrames ==
    UNION {{DataFrame(h, [i \in 1..Len(r) |-> i - 1], r) :
               r \in RowsOver(Cells, Len(h))} : h \in FrameHeaders}

OldFile == CsvFile(<<"id">>, <<<<Literal(100)>>>>)

\* Room for every file the pipeline can write.
Roomy == MaxRows + 1

InitScript ==
    /\ entry = "script"
    /\ pc = "main"
    /\ inputFile \in InputFiles
    /\ outputFile \in {NoFile, OldFile}
    /\ \/ outOpenable = FALSE /\ outSpace = Roomy
       \/ outOpenable = TRUE /\ outSpace \in 0..Roomy
    /\ data = None

InitCall ==
    /\ entry = "transform_data"
    /\ pc = "transform"
    /\ inputFile = NoFile
    /\ outputFile = NoFile
    /\ outOpenable = TRUE
    /\ outSpace = Roomy
    /\ data \in DataFrames

Init ==
    /\ InitScript \/ InitCall
    /\ run = 1
    /\ outAtStart = outputFile
    /\ transformed = None
    /\ out = <<>>
    /\ calls = <<>>

----------------------------------------------------------------------------
\* The script block up to the call of etl_process (lines 50-64).
MainStart ==
    /\ pc = "main"
    /\ out' = Append(out, "Starting ETL process")
    /\ pc' = "extract"
    /\ UNCHANGED <<entry, run, inputFile, outputFile, outOpenable, outSpace,
                   outAtStart, data, transformed, calls>>

\* etl_process, line 44, and extract_data.
ExtractData ==
    /\ pc = "extract"
    /\ data' = extract_data(inputFile)
    /\ out' = Append(out, IF read_csv_raises(inputFile)
                          THEN "Error in data extraction"
                          ELSE "Data extraction successful")
    /\ calls' = Append(calls, "extract")
    /\ pc' = AfterExtract(data')
    /\ UNCHANGED <<entry, run, inputFile, outputFile, outOpenable, outSpace,
                   outAtStart, transformed>>

\* etl_process, line 46, and transform_data; also transform_data called on
\* its own.
TransformData ==
    /\ pc = "transform"
    /\ transformed' = transform_data(data)
    /\ out' = Append(out, IF transform_raises(data)
                          THEN "Error in data transformation"
                          ELSE "Data transformation successful")
    /\ calls' = Append(calls, "transform")
    /\ pc' = IF entry = "script" THEN AfterTransform(transformed') ELSE "done"
    /\ UNCHANGED <<entry, run, inputFile, outputFile, outOpenable, outSpace,
                   outAtStart, data>>

\* etl_process, line 48, and load_data.
LoadData ==
    /\ pc = "load"
    /\ outputFile' = IF transformed.ok
                     THEN Written(outputFile, to_csv(transformed),
                                  outOpenable, outSpace)
                     ELSE outputFile
    /\ out' = Append(out, IF to_csv_raises(transformed, outOpenable, outSpace)
                          THEN "Error in data loading"
                          ELSE "Data loaded successfully")
    /\ calls' = Append(calls, "load")
    /\ pc' = "end"
    /\ UNCHANGED <<entry, run, inputFile, outOpenable, outSpace, outAtStart,
                   data, transformed>>

\* The script block after etl_process returned (line 68).
MainEnd ==
    /\ pc = "end"
    /\ out' = Append(out, "ETL process completed successfully!")
    /\ pc' = "done"
    /\ UNCHANGED <<entry, run, inputFile, outputFile, outOpenable, outSpace,
                   outAtStart, data, transformed, calls>>

\* The script is run again with the same paths: a new process, the same files.
Rerun ==
    /\ pc = "done"
    /\ entry = "script"
    /\ run < MaxRuns
    /\ run' = run + 1
    /\ pc' = "main"
    /\ outAtStart' = outputFile
    /\ data' = None
    /\ transformed' = None
    /\ out' = <<>>
    /\ calls' = <<>>
    /\ UNCHANGED <<entry, inputFile, outputFile, outOpenable, outSpace>>

Next ==
    \/ MainStart
    \/ ExtractData
    \/ TransformData
    \/ LoadData
    \/ MainEnd
    \/ Rerun

Spec == Init /\ [][Next]_vars

----------------------------------------------------------------------------
\* Properties.

Printed(notice) == notice \in Range(out)

Called(stage) == stage \in Range(calls)

Derived == {"tax", "net_salary"}

Complete(row) == \A j \in 1..Len(row) : row[j] # NaN

\* The positions of the rows of df without a missing cell, ascending.
CompletePositions(df) ==
    SelectSeq([i \in 1..Len(df.rows) |-> i], LAMBDA i : Complete(df.rows[i]))

NumericSalary(df) ==
    /\ df.ok
    /\ HasColumn(df, "salary")
    /\ \A i \in 1..Len(df.rows) :
           df.rows[i][IndexOf(df.columns, "salary")].kind \in {"num", "nan"}

\* The cell of column name in row k of df.
CellOf(df, k, name) == df.rows[k][IndexOf(df.columns, name)]

\* The position in df of the row labelled l.
PositionOf(df, l) == CHOOSE i \in 1..Len(df.index) : df.index[i] = l

\* C1: on a table with a numeric salary column transform succeeds, and the
\* rows of its output are the input rows without a missing cell in any
\* column, in their input order: as many rows, the same row labels, and the
\* same cells in every input column that is not a derived one.
C1_CompleteRowsKept ==
    (Called("transform") /\ NumericSalary(data)) =>
        /\ transformed.ok
        /\ LET pos == CompletePositions(data)
           IN  /\ Len(transformed.rows) =
                      Cardinality({i \in 1..Len(data.rows) :
                                      Complete(data.rows[i])})
               /\ Len(transformed.rows) = Len(pos)
               /\ \A k \in 1..Len(pos) :
                      /\ transformed.index[k] = data.index[pos[k]]
                      /\ \A c \in Range(data.columns) \ Derived :
                             CellOf(transformed, k, c) = CellOf(data, pos[k], c)

\* C1 witness: a table of two rows, the first with a missing cell in a column
\* other than salary, was transformed and only the second row is left.
C1_Witness ==
    /\ Called("transform")
    /\ NumericSalary(data)
    /\ Len(data.rows) = 2
    /\ ~Complete(data.rows[1])
    /\ data.rows[1][IndexOf(data.columns, "salary")] # NaN
    /\ transformed.ok
    /\ transformed.index = <<1>>

\* C2: in every row of transform's output tax is the row's salary times 0.1,
\* net_salary is the row's salary minus the row's tax, and the salary is the
\* salary of the input row.
C2_DerivedColumns ==
    (Called("transform") /\ transformed.ok) =>
        \A k \in 1..Len(transformed.rows) :
            LET salary == CellOf(transformed, k, "salary")
                tax    == CellOf(transformed, k, "tax")
                net    == CellOf(transformed, k, "net_salary")
            IN  /\ salary.kind = "num" /\ tax.kind = "num" /\ net.kind = "num"
                /\ tax.val * 10 = salary.val
                /\ net.val + tax.val = salary.val
                /\ salary = CellOf(data,
                                   PositionOf(data, transformed.index[k]),
                                   "salary")

\* C2 witness: an output of two rows with different salaries.
C2_Witness ==
    /\ Called("transform")
    /\ transformed.ok
    /\ Len(transformed.rows) = 2
    /\ CellOf(transformed, 1, "salary") # CellOf(transformed, 2, "salary")
    /\ CellOf(transformed, 2, "net_salary") = Num(225)

\* C3, as claimed: whenever transform succeeds its output columns are the
\* input columns followed by tax and net_salary.
C3_ColumnsAppended ==
    (Called("transform") /\ transformed.ok) =>
        transformed.columns = data.columns \o <<"tax", "net_salary">>

Stages == <<"extract", "transform", "load">>

\* C5: a run of the driver invokes extract, transform, load in that order,
\* each at most once; transform only after extract succeeded, load only
\* after both succeeded; nothing follows the first stage that failed.
C5_StagesInOrder ==
    entry = "script" =>
        /\ Len(calls) <= Len(Stages)
        /\ \A i \in 1..Len(calls) : calls[i] = Stages[i]
        /\ Called("transform") => data.ok
        /\ Called("load") => data.ok /\ transformed.ok
        /\ pc \in {"end", "done"} =>
               /\ Called("extract")
               /\ ~data.ok => calls = <<"extract">>
               /\ (data.ok /\ ~transformed.ok) =>
                      calls = <<"extract", "transform">>
               /\ (data.ok /\ transformed.ok) => calls = Stages

\* C5 witness: a run ended after transform failed.
C5_Witness ==
    /\ entry = "script"
    /\ pc = "done"
    /\ data.ok
    /\ ~transformed.ok
    /\ calls = <<"extract", "transform">>

\* C6, as claimed: transform of the table without columns and rows returns a
\* table of zero rows.
C6_EmptyFrameTransformed ==
    (Called("transform") /\ data.ok /\ data.columns = <<>> /\ data.rows = <<>>)
        => transformed.ok /\ Len(transformed.rows) = 0

\* C7, as claimed: a file of a header with salary and no data rows is
\* transformed without failure into zero rows under the header followed by
\* tax and net_salary.
C7_HeaderOnlyInput ==
    (/\ entry = "script"
     /\ Called("transform")
     /\ HasColumn(data, "salary")
     /\ data.rows = <<>>) =>
        /\ transformed.ok
        /\ transformed.rows = <<>>
        /\ transformed.columns = data.columns \o <<"tax", "net_salary">>

\* C8: when the script has run a second time on the same paths the output
\* file holds what it held after the run before.
C8_SecondRunSameOutput ==
    (entry = "script" /\ run >= 2 /\ pc = "done") => outputFile = outAtStart

\* C8 witness: a second run wrote rows over the output of the first.
C8_Witness ==
    /\ entry = "script"
    /\ run = 2
    /\ pc = "done"
    /\ Printed("Data loaded successfully")
    /\ Len(outputFile.rows) = 2

\* C9, as claimed: after a load that failed the output file does not exist
\* or holds what it held when the run began, and the failure was printed.
C9_FailedLoadLeavesFile ==
    (Called("load") /\ ~Printed("Data loaded successfully")) =>
        /\ Printed("Error in data loading")
        /\ ~outputFile.exists \/ outputFile = outAtStart

\* C10, as claimed: the final success notice is printed only by a run whose
\* three stages succeeded.
C10_SuccessNoticeOnlyOnSuccess ==
    Printed("ETL process completed successfully!") =>
        /\ Printed("Data extraction successful")
        /\ Printed("Data transformation successful")
        /\ Printed("Data loaded successfully")

====
